---- MODULE Spec2Model ----
(***************************************************************************)
(* The KIC ledger of src/main.py: the users and kic_transactions tables of *)
(* the SQLite database, EnhancedAuthManager.register and                   *)
(* KICManager.transfer_kic, run by several Streamlit sessions.  Every      *)
(* script run opens its own sqlite3 connection (Database.__init__), so a   *)
(* session reads the committed tables, and the statements of a write       *)
(* transaction are seen by the other sessions only once it commits.        *)
(* SQLite admits one write transaction at a time: the first UPDATE takes   *)
(* the database write lock and conn.commit() releases it.                  *)
(* The read operations get_kic_balance, get_kic_transactions and the KIC   *)
(* hub's totals are actions of their own and leave their result in answer. *)
(***************************************************************************)
EXTENDS Integers, Sequences, FiniteSets

\* ------------------------------------------------------------ bounds
NProc == 2          \* concurrent sessions (connections)
MaxCalls == 2       \* transfer_kic calls started in one behaviour

Procs == 1..NProc

\* ------------------------------------------------------------ program constants
NULL == 0                \* a column left out of an INSERT; AUTOINCREMENT ids start at 1
StartingBalance == 1000  \* kic_balance given by register

\* rows of Database.seed_enhanced_data; a users row's id is its index
\* hashlib.sha256(password.encode()).hexdigest(): no two passwords share a hash
hash_password(password) == <<"sha256", password>>

enhanced_users ==
    << [email |-> "ahmed.mansouri@example.com", password_hash |-> hash_password("password123"),
        name |-> "Ahmed Al Mansouri", kic_balance |-> 1500],
       [email |-> "fatima.zaabi@example.com", password_hash |-> hash_password("password123"),
        name |-> "Dr. Fatima Al Zaabi", kic_balance |-> 2200],
       [email |-> "sara.hassan@example.com", password_hash |-> hash_password("password123"),
        name |-> "Sara Hassan", kic_balance |-> 5000] >>

\* all four rows are inserted by one executemany, within the same second
SeedTime == 0

seed_kic_transactions ==
    << [id |-> 1, user_id |-> 1, transaction_type |-> "project_payment", amount |-> 2500,
        related_id |-> 1, created_at |-> SeedTime],
       [id |-> 2, user_id |-> 2, transaction_type |-> "lab_booking", amount |-> -800,
        related_id |-> 1, created_at |-> SeedTime],
       [id |-> 3, user_id |-> 1, transaction_type |-> "bonus", amount |-> 500,
        related_id |-> NULL, created_at |-> SeedTime],
       [id |-> 4, user_id |-> 2, transaction_type |-> "talent_fee", amount |-> 1200,
        related_id |-> 2, created_at |-> SeedTime] >>

\* ------------------------------------------------------------ inputs
NewUserId == Len(enhanced_users) + 1   \* the id the first successful register gets
Senders == {1, NewUserId}              \* from_user_id: a seeded user, one that may not exist
Receivers == {1, 2, NewUserId}         \* to_user_id: the sender, another user, one that may not exist
Amounts == {-1500, 0, 1500}            \* negative, zero, a seeded user's whole balance
RegEmails == {"ahmed.mansouri@example.com", "new@example.com"}   \* a taken email, a free one

\* ------------------------------------------------------------ state
VARIABLES
    users,             \* committed users table: id -> [email, kic_balance]
    kic_transactions,  \* committed kic_transactions table: id -> row
    conn_users,        \* users as seen by the connection in a write transaction
    conn_txns,         \* kic_transactions as seen by that connection
    writer,            \* the session holding the database write lock, 0 if none
    pc,                \* each session's position in transfer_kic
    args,              \* the arguments of the session's running call
    balance,           \* the running call's local variable balance
    result,            \* the outcome of the session's last finished call
    ncalls,            \* calls started so far
    now,               \* the database clock (CURRENT_TIMESTAMP), in seconds
    answer,            \* what the last read operation returned
    session,           \* each browser session's st.session_state
    social             \* the messages and connections tables, the views added to a project

vars == <<users, kic_transactions, conn_users, conn_txns, writer, pc, args, balance, result, ncalls,
          now, answer, session, social>>

app == <<session, social>>

NoArgs == [from_user_id |-> NULL, to_user_id |-> NULL, amount |-> 0]
\* 'user' not in st.session_state
NoUser == [id |-> NULL, name |-> "", kic_balance |-> 0, sending |-> 0]
\* the seeding writes no message and no connection
NoSocial == [messages |-> <<>>, connections |-> <<>>, views |-> 0]
NoAnswer == [op |-> "none", user_id |-> NULL, limit |-> 0, email |-> "", error |-> "none",
             returned |-> "none", value |-> 0, total_spent |-> 0, rows |-> <<>>]

Init ==
    /\ users = enhanced_users
    /\ kic_transactions = seed_kic_transactions
    /\ conn_users = enhanced_users
    /\ conn_txns = seed_kic_transactions
    /\ writer = 0
    /\ pc = [p \in Procs |-> "idle"]
    /\ args = [p \in Procs |-> NoArgs]
    /\ balance = [p \in Procs |-> 0]
    /\ result = [p \in Procs |-> "none"]
    /\ ncalls = 0
    /\ now = SeedTime
    /\ answer = NoAnswer
    /\ session = [p \in Procs |-> NoUser]
    /\ social = NoSocial

\* ------------------------------------------------------------ helpers
Exists(tbl, id) == id \in DOMAIN tbl

\* a slip in the balance test: the balance is compared with 0, not with the amount
SufficientNonNegative(bal, amt) == bal >= 0

\* if balance >= amount
Sufficient(bal, amt) == bal >= amt

\* a slip in the UPDATE: SET kic_balance = ? in place of kic_balance + ?
UpdateBalanceOverwrite(tbl, id, delta) ==
    IF id \in DOMAIN tbl
    THEN [tbl EXCEPT ![id].kic_balance = delta]
    ELSE tbl

\* UPDATE users SET kic_balance = kic_balance + delta WHERE id = ?  (no row: no change)
UpdateBalance(tbl, id, delta) ==
    IF Exists(tbl, id)
    THEN [tbl EXCEPT ![id].kic_balance = @ + delta]
    ELSE tbl

\* the largest id of the table, 0 for an empty one (sqlite_sequence: no row is
\* ever deleted, and a rollback undoes the sequence with the rows)
MaxId(tbl) ==
    LET ids == {tbl[i].id : i \in DOMAIN tbl}
    IN  IF ids = {} THEN 0 ELSE CHOOSE m \in ids : \A k \in ids : k <= m

\* a slip in the INSERT: INSERT OR REPLACE with the id of the newest row
InsertTxnReplace(tbl, uid, type, amt) ==
    [tbl EXCEPT ![Len(tbl)] =
        [id |-> MaxId(tbl), user_id |-> uid, transaction_type |-> type,
         amount |-> amt, related_id |-> NULL, created_at |-> now]]

\* a slip in the INSERT: an explicit id, MAX(id) + 1 of the committed table
InsertTxnCommittedMaxId(tbl, uid, type, amt) ==
    Append(tbl, [id |-> MaxId(kic_transactions) + 1, user_id |-> uid, transaction_type |-> type,
                 amount |-> amt, related_id |-> NULL, created_at |-> now])

\* INSERT INTO kic_transactions (user_id, transaction_type, amount, description):
\* id is AUTOINCREMENT, related_id is left NULL, created_at is CURRENT_TIMESTAMP
InsertTxn(tbl, uid, type, amt) ==
    Append(tbl, [id |-> MaxId(tbl) + 1, user_id |-> uid, transaction_type |-> type,
                 amount |-> amt, related_id |-> NULL, created_at |-> now])

\* ------------------------------------------------------------ transfer_kic
\* a session calls transfer_kic(from_user_id, to_user_id, amount, description, db)
StartCall(p, f, t, a) ==
    /\ pc[p] \in {"idle", "done"}
    /\ ncalls' = ncalls + 1
    /\ args' = [args EXCEPT ![p] = [from_user_id |-> f, to_user_id |-> t, amount |-> a]]
    /\ pc' = [pc EXCEPT ![p] = "select"]
    /\ result' = [result EXCEPT ![p] = "none"]
    /\ UNCHANGED <<users, kic_transactions, conn_users, conn_txns, writer, balance, now, answer>>

\* a call made with arbitrary arguments, by a caller other than the wallet form
Call(p, f, t, a) ==
    /\ StartCall(p, f, t, a)
    /\ UNCHANGED app

\* SELECT kic_balance FROM users WHERE id = from_user_id, and the test on it.
\* The SELECT runs outside any transaction and sees the committed table.
Select(p) ==
    /\ pc[p] = "select"
    /\ IF ~Exists(users, args[p].from_user_id)
       THEN \* cursor.fetchone() is None: None[0] raises TypeError
            /\ pc' = [pc EXCEPT ![p] = "done"]
            /\ result' = [result EXCEPT ![p] = "TypeError"]
            /\ args' = [args EXCEPT ![p] = NoArgs]
            /\ UNCHANGED balance
       ELSE IF Sufficient(users[args[p].from_user_id].kic_balance, args[p].amount)
            THEN /\ pc' = [pc EXCEPT ![p] = "debit"]
                 /\ balance' = [balance EXCEPT ![p] = users[args[p].from_user_id].kic_balance]
                 /\ UNCHANGED <<result, args>>
            ELSE \* return False
                 /\ pc' = [pc EXCEPT ![p] = "done"]
                 /\ result' = [result EXCEPT ![p] = "False"]
                 /\ args' = [args EXCEPT ![p] = NoArgs]
                 /\ UNCHANGED balance
    /\ UNCHANGED <<users, kic_transactions, conn_users, conn_txns, writer, ncalls, now, answer, app>>

\* a slip in the connection's setup: isolation_level=None (autocommit), the
\* debit is committed by the UPDATE itself
DebitAutocommit(p) ==
    /\ pc[p] = "debit"
    /\ writer = 0
    /\ writer' = p
    /\ users' = UpdateBalance(users, args[p].from_user_id, -args[p].amount)
    /\ conn_users' = users'
    /\ pc' = [pc EXCEPT ![p] = "credit"]
    /\ UNCHANGED <<kic_transactions, conn_txns, args, balance, result, ncalls, now, answer, app>>

\* a slip in the UPDATE: SET kic_balance = ? with balance - amount computed
\* from the value the SELECT read (read, compute, write)
DebitFromRead(p) ==
    /\ pc[p] = "debit"
    /\ writer = 0
    /\ writer' = p
    /\ conn_users' = [users EXCEPT ![args[p].from_user_id].kic_balance = balance[p] - args[p].amount]
    /\ pc' = [pc EXCEPT ![p] = "credit"]
    /\ UNCHANGED <<users, kic_transactions, conn_txns, args, balance, result, ncalls, now, answer, app>>

\* UPDATE users SET kic_balance = kic_balance - ? : opens the write transaction
Debit(p) ==
    /\ pc[p] = "debit"
    /\ writer = 0
    /\ writer' = p
    /\ conn_users' = UpdateBalance(users, args[p].from_user_id, -args[p].amount)
    /\ pc' = [pc EXCEPT ![p] = "credit"]
    /\ UNCHANGED <<users, kic_transactions, conn_txns, args, balance, result, ncalls, now, answer, app>>

\* the same UPDATE while another connection holds the write lock until the
\* busy timeout runs out: sqlite3.OperationalError, database is locked
Locked(p) ==
    /\ pc[p] = "debit"
    /\ writer # 0
    /\ writer # p
    /\ pc' = [pc EXCEPT ![p] = "done"]
    /\ result' = [result EXCEPT ![p] = "OperationalError"]
    /\ args' = [args EXCEPT ![p] = NoArgs]
    /\ balance' = [balance EXCEPT ![p] = 0]
    /\ UNCHANGED <<users, kic_transactions, conn_users, conn_txns, writer, ncalls, now, answer, app>>

\* a slip in the credit: the UPDATE is repeated until it has changed a row,
\* which it never does for a receiver without a users row
CreditUntilUpdated(p) ==
    /\ pc[p] = "credit"
    /\ Exists(conn_users, args[p].to_user_id)
    /\ conn_users' = UpdateBalance(conn_users, args[p].to_user_id, args[p].amount)
    /\ pc' = [pc EXCEPT ![p] = "sent"]
    /\ UNCHANGED <<users, kic_transactions, conn_txns, writer, args, balance, result, ncalls, now, answer, app>>

\* UPDATE users SET kic_balance = kic_balance + ?
Credit(p) ==
    /\ pc[p] = "credit"
    /\ conn_users' = UpdateBalance(conn_users, args[p].to_user_id, args[p].amount)
    /\ pc' = [pc EXCEPT ![p] = "sent"]
    /\ UNCHANGED <<users, kic_transactions, conn_txns, writer, args, balance, result, ncalls, now, answer, app>>

\* a slip in the INSERT: the 'sent' row is logged with amount, not -amount
InsertSentUnsigned(p) ==
    /\ pc[p] = "sent"
    /\ conn_txns' = InsertTxn(conn_txns, args[p].from_user_id, "sent", args[p].amount)
    /\ pc' = [pc EXCEPT ![p] = "received"]
    /\ UNCHANGED <<users, kic_transactions, conn_users, writer, args, balance, result, ncalls, now, answer, app>>

InsertSent(p) ==
    /\ pc[p] = "sent"
    /\ conn_txns' = InsertTxn(conn_txns, args[p].from_user_id, "sent", -args[p].amount)
    /\ pc' = [pc EXCEPT ![p] = "received"]
    /\ UNCHANGED <<users, kic_transactions, conn_users, writer, args, balance, result, ncalls, now, answer, app>>

\* a slip in the INSERT: the 'received' row is written only for a receiver
\* that has a users row
InsertReceivedIfExists(p) ==
    /\ pc[p] = "received"
    /\ conn_txns' = IF Exists(conn_users, args[p].to_user_id)
                     THEN InsertTxn(conn_txns, args[p].to_user_id, "received", args[p].amount)
                     ELSE conn_txns
    /\ pc' = [pc EXCEPT ![p] = "commit"]
    /\ UNCHANGED <<users, kic_transactions, conn_users, writer, args, balance, result, ncalls, now, answer, app>>

InsertReceived(p) ==
    /\ pc[p] = "received"
    /\ conn_txns' = InsertTxn(conn_txns, args[p].to_user_id, "received", args[p].amount)
    /\ pc' = [pc EXCEPT ![p] = "commit"]
    /\ UNCHANGED <<users, kic_transactions, conn_users, writer, args, balance, result, ncalls, now, answer, app>>

\* db.conn.commit(); return True
Commit(p) ==
    /\ pc[p] = "commit"
    /\ users' = conn_users
    /\ kic_transactions' = conn_txns
    /\ writer' = 0
    /\ pc' = [pc EXCEPT ![p] = "done"]
    /\ result' = [result EXCEPT ![p] = "True"]
    /\ args' = [args EXCEPT ![p] = NoArgs]
    /\ balance' = [balance EXCEPT ![p] = 0]
    /\ UNCHANGED <<conn_users, conn_txns, ncalls, now, answer, app>>

InTransaction(p) == pc[p] \in {"credit", "sent", "received", "commit"}

\* a slip in the error handling: finally: db.conn.commit()
AbortCommitting(p) ==
    /\ InTransaction(p)
    /\ users' = conn_users
    /\ kic_transactions' = conn_txns
    /\ writer' = 0
    /\ pc' = [pc EXCEPT ![p] = "done"]
    /\ result' = [result EXCEPT ![p] = "OperationalError"]
    /\ args' = [args EXCEPT ![p] = NoArgs]
    /\ balance' = [balance EXCEPT ![p] = 0]
    /\ UNCHANGED <<conn_users, conn_txns, ncalls, now, answer, app>>

\* a storage failure in the open write transaction: the second UPDATE, an
\* INSERT or conn.commit() raises sqlite3.OperationalError (disk I/O error,
\* database or disk is full).  transfer_kic catches nothing, so the exception
\* ends the script run; the run's connection is dropped with the transaction
\* open, and SQLite rolls an uncommitted transaction back and frees the lock.
Abort(p) ==
    /\ InTransaction(p)
    /\ conn_users' = users
    /\ conn_txns' = kic_transactions
    /\ writer' = 0
    /\ pc' = [pc EXCEPT ![p] = "done"]
    /\ result' = [result EXCEPT ![p] = "OperationalError"]
    /\ args' = [args EXCEPT ![p] = NoArgs]
    /\ balance' = [balance EXCEPT ![p] = 0]
    /\ UNCHANGED <<users, kic_transactions, ncalls, now, answer, app>>

\* ------------------------------------------------------------ register
\* a slip in the schema: email without UNIQUE, no INSERT raises IntegrityError
EmailTakenNever(e) == FALSE

\* the INSERT violates the UNIQUE constraint of users.email
EmailTaken(e) == \E i \in DOMAIN users : users[i].email = e

\* a slip in the INSERT: the starting balance of the companies table
RegisterRowOfCompany(e) ==
    /\ writer = 0
    /\ IF EmailTaken(e)
       THEN UNCHANGED <<users, conn_users>>
       ELSE /\ users' = Append(users, [email |-> e, password_hash |-> hash_password("password123"),
                                         name |-> "New User", kic_balance |-> 5 * StartingBalance])
            /\ conn_users' = users'

\* INSERT INTO users ... kic_balance 1000; commit.  A taken email raises
\* IntegrityError (email is UNIQUE) and nothing is inserted.
RegisterRow(e) ==
    /\ writer = 0
    /\ IF EmailTaken(e)
       THEN UNCHANGED <<users, conn_users>>
       ELSE /\ users' = Append(users, [email |-> e, password_hash |-> hash_password("password123"),
                                         name |-> "New User", kic_balance |-> StartingBalance])
            /\ conn_users' = users'

\* a registration by a visitor whose page is not followed further
Register(e) ==
    /\ RegisterRow(e)
    /\ UNCHANGED <<kic_transactions, conn_txns, writer, pc, args, balance, result, ncalls, now, answer, app>>

\* EnhancedAuthManager.register: True, or False on IntegrityError
register(e) ==
    /\ RegisterRow(e)
    /\ answer' = [NoAnswer EXCEPT !.op = "register", !.email = e,
                                  !.returned = IF EmailTaken(e) THEN "False" ELSE "True"]
    /\ UNCHANGED <<kic_transactions, conn_txns, writer, pc, args, balance, result, ncalls, now, app>>

\* ------------------------------------------------------------ specification
\* the sessions are interchangeable: they make their first calls in the
\* order of their ids
InTurn(p) == IF p = 1 THEN TRUE ELSE pc[p - 1] # "idle"

\* Starting a call touches nothing another session reads, so it commutes with
\* every step of the other sessions: a call is started right before its
\* SELECT runs, and no session is left waiting between the two.
Ready == \A q \in Procs : pc[q] # "select"

Next ==
    \/ \E p \in Procs, f \in Senders, t \in Receivers, a \in Amounts :
          ncalls < MaxCalls /\ Ready /\ InTurn(p) /\ Call(p, f, t, a)
    \/ \E p \in Procs : Select(p)
    \/ \E p \in Procs : Ready /\ Debit(p)
    \/ \E p \in Procs : Ready /\ Locked(p)
    \/ \E p \in Procs : Ready /\ Credit(p)
    \/ \E p \in Procs : Ready /\ InsertSent(p)
    \/ \E p \in Procs : Ready /\ InsertReceived(p)
    \/ \E p \in Procs : Ready /\ Commit(p)
    \/ \E p \in Procs : Ready /\ Abort(p)
    \/ \E e \in RegEmails : Ready /\ Register(e)

Spec == Init /\ [][Next]_vars

\* ------------------------------------------------------------ a burst of equal transfers
\* On the seeded database one transfer_kic(A, B, balance of A - b) leaves A
\* with b, fewer than the number of sessions; then every session calls
\* transfer_kic(A, B, 1) once and the calls run concurrently.  The sessions
\* are interchangeable, so the calls are started in the order of their ids;
\* their statements interleave freely.  A write transaction here is a few
\* statements long, so a session waiting for the write lock gets it before
\* the busy timeout: Locked is not among the burst's steps.
DrainRow == Len(seed_kic_transactions) + 1     \* the 'sent' row of the first transfer

DrainCommitted == Len(kic_transactions) > DrainRow

BurstFrom == kic_transactions[DrainRow].user_id
BurstTo == kic_transactions[DrainRow + 1].user_id
BurstStartBalance == enhanced_users[BurstFrom].kic_balance + kic_transactions[DrainRow].amount

DrainCall(A, B, b) ==
    /\ ncalls = 0
    /\ A # B
    /\ Call(1, A, B, enhanced_users[A].kic_balance - b)

BurstCall(p) ==
    /\ ncalls = p
    /\ DrainCommitted
    /\ Call(p, BurstFrom, BurstTo, 1)

NextBurst ==
    \/ \E A \in DOMAIN enhanced_users, B \in DOMAIN enhanced_users, b \in 0..(NProc - 1) :
          DrainCall(A, B, b)
    \/ \E p \in Procs : BurstCall(p)
    \/ \E p \in Procs : Select(p)
    \/ \E p \in Procs : Debit(p)
    \/ \E p \in Procs : Credit(p)
    \/ \E p \in Procs : InsertSent(p)
    \/ \E p \in Procs : InsertReceived(p)
    \/ \E p \in Procs : Commit(p)

SpecBurst == Init /\ [][NextBurst]_vars

BurstDone == ncalls = NProc + 1 /\ \A p \in Procs : pc[p] = "done"

\* ------------------------------------------------------------ crossing transfers, fairly scheduled
\* Sessions send positive amounts between users 1 and 2, in both directions
\* at once, and to an id without a users row.  A session is a thread of the
\* server: a call that has started executes its next statement eventually,
\* and an UPDATE waiting for the write lock either gets it or gives up when
\* the busy timeout of the connection runs out.  A storage failure (Abort)
\* may happen at any time, but nothing forces it to.
Step(p) ==
    \/ Select(p)
    \/ Debit(p)
    \/ Locked(p)
    \/ Credit(p)
    \/ InsertSent(p)
    \/ InsertReceived(p)
    \/ Commit(p)

NextLive ==
    \/ \E p \in Procs, f \in {1, 2}, t \in Receivers, a \in {x \in Amounts : x > 0} :
          ncalls < MaxCalls /\ f # t /\ Call(p, f, t, a)
    \/ \E p \in Procs : Step(p)
    \/ \E p \in Procs : Abort(p)

SpecLive == Init /\ [][NextLive]_vars /\ \A p \in Procs : WF_vars(Step(p))

\* ------------------------------------------------------------ read operations
\* A read runs on a connection that has no write transaction open, so it
\* sees the committed tables.
MaxClock == 1       \* seconds the database clock advances in one behaviour
MaxQueryCalls == 1  \* transfer_kic calls started in one behaviour of SpecQuery or SpecWallet

QueryIds == {1, 2, NewUserId}      \* two users with rows, one that may not exist
Limits == {1, 5}                   \* a single row; the limit of the dashboard

\* a slip in the read: (cursor.fetchone() or [0])[0], a missing row reads as 0
FetchBalanceOrZero(tbl, uid) ==
    [NoAnswer EXCEPT !.op = "get_kic_balance", !.user_id = uid,
                     !.value = IF Exists(tbl, uid) THEN tbl[uid].kic_balance ELSE 0]

\* SELECT kic_balance FROM users WHERE id = ?; return cursor.fetchone()[0]
\* (no row: fetchone() is None and None[0] raises TypeError)
FetchBalance(tbl, uid) ==
    IF Exists(tbl, uid)
    THEN [NoAnswer EXCEPT !.op = "get_kic_balance", !.user_id = uid,
                          !.value = tbl[uid].kic_balance]
    ELSE [NoAnswer EXCEPT !.op = "get_kic_balance", !.user_id = uid,
                          !.error = "TypeError"]

get_kic_balance(uid) ==
    /\ answer' = FetchBalance(users, uid)
    /\ UNCHANGED <<users, kic_transactions, conn_users, conn_txns, writer, pc, args, balance,
                   result, ncalls, now, app>>

\* WHERE user_id = ?  (rows in the order of the table scan, by id)
WhereUser(tbl, uid) == SelectSeq(tbl, LAMBDA r : r.user_id = uid)

\* a slip in the query: no ORDER BY, the rows come in the order of the scan
InsertScanOrder(sorted, r) == Append(sorted, r)

\* the sorter puts a row after the rows that do not come later in the order
InsertDesc(sorted, r) ==
    LET k == Cardinality({i \in DOMAIN sorted : sorted[i].created_at >= r.created_at})
    IN  SubSeq(sorted, 1, k) \o <<r>> \o SubSeq(sorted, k + 1, Len(sorted))

RECURSIVE OrderByCreatedAtDesc(_)
\* ORDER BY created_at DESC; rows with equal created_at keep the scan order
OrderByCreatedAtDesc(rows) ==
    IF rows = <<>> THEN <<>>
    ELSE InsertDesc(OrderByCreatedAtDesc(SubSeq(rows, 1, Len(rows) - 1)), rows[Len(rows)])

\* LIMIT ?
Limit(rows, n) == SubSeq(rows, 1, IF n < Len(rows) THEN n ELSE Len(rows))

get_kic_transactions(uid, limit) ==
    /\ answer' = [NoAnswer EXCEPT
                      !.op = "get_kic_transactions", !.user_id = uid, !.limit = limit,
                      !.rows = Limit(OrderByCreatedAtDesc(WhereUser(kic_transactions, uid)), limit)]
    /\ UNCHANGED <<users, kic_transactions, conn_users, conn_txns, writer, pc, args, balance,
                   result, ncalls, now, app>>

RECURSIVE SumAmounts(_)
SumAmounts(rows) ==
    IF rows = <<>> THEN 0 ELSE SumAmounts(SubSeq(rows, 1, Len(rows) - 1)) + rows[Len(rows)].amount

\* SELECT SUM(amount): NULL (None, here the empty tuple) when no row matches
SqlSum(rows) == IF rows = <<>> THEN <<>> ELSE <<SumAmounts(rows)>>

\* Python's  x or 0 : None and 0 both give 0
OrZero(x) == IF x = <<>> THEN 0 ELSE IF x[1] = 0 THEN 0 ELSE x[1]

\* a slip in total_spent: abs() left out
AbsLeftOut(x) == x

Abs(x) == IF x < 0 THEN -x ELSE x

\* SUM(amount) ... WHERE user_id = ? AND amount > 0
TotalEarned(tbl, uid) ==
    OrZero(SqlSum(SelectSeq(WhereUser(tbl, uid), LAMBDA r : r.amount > 0)))

\* abs(SUM(amount) ... WHERE user_id = ? AND amount < 0)
TotalSpent(tbl, uid) ==
    Abs(OrZero(SqlSum(SelectSeq(WhereUser(tbl, uid), LAMBDA r : r.amount < 0))))

\* a slip in the page: the balance is refreshed from the log while it is shown
show_kic_hub_page_refreshing(uid) ==
    /\ Exists(users, uid)
    /\ writer = 0
    /\ answer' = [NoAnswer EXCEPT
                      !.op = "show_kic_hub_page", !.user_id = uid,
                      !.value = TotalEarned(kic_transactions, uid),
                      !.total_spent = TotalSpent(kic_transactions, uid)]
    /\ users' = [users EXCEPT ![uid].kic_balance =
                     TotalEarned(kic_transactions, uid) - TotalSpent(kic_transactions, uid)]
    /\ conn_users' = users'
    /\ UNCHANGED <<kic_transactions, conn_txns, writer, pc, args, balance, result, ncalls, now, app>>

\* the KIC hub of the logged-in user: total earned (answer.value) and total spent
show_kic_hub_page(uid) ==
    /\ Exists(users, uid)
    /\ answer' = [NoAnswer EXCEPT
                      !.op = "show_kic_hub_page", !.user_id = uid,
                      !.value = TotalEarned(kic_transactions, uid),
                      !.total_spent = TotalSpent(kic_transactions, uid)]
    /\ UNCHANGED <<users, kic_transactions, conn_users, conn_txns, writer, pc, args, balance,
                   result, ncalls, now, app>>

\* a second of the database clock passes
Tick ==
    /\ now < MaxClock
    /\ now' = now + 1
    /\ UNCHANGED <<users, kic_transactions, conn_users, conn_txns, writer, pc, args, balance,
                   result, ncalls, answer, app>>

\* one session sends user 1's KIC and users register while the ledger is read
NextQuery ==
    \/ \E t \in Receivers, a \in Amounts \ {0} :
          ncalls < MaxQueryCalls /\ Call(1, 1, t, a)
    \/ \E p \in Procs : Select(p)
    \/ \E p \in Procs : Debit(p)
    \/ \E p \in Procs : Credit(p)
    \/ \E p \in Procs : InsertSent(p)
    \/ \E p \in Procs : InsertReceived(p)
    \/ \E p \in Procs : Commit(p)
    \/ \E p \in Procs : Abort(p)
    \/ \E e \in RegEmails : register(e)
    \/ Tick
    \/ \E uid \in QueryIds : get_kic_balance(uid)
    \/ \E uid \in QueryIds, limit \in Limits : get_kic_transactions(uid, limit)
    \/ \E uid \in QueryIds : show_kic_hub_page(uid)

SpecQuery == Init /\ [][NextQuery]_vars

\* this step is the read operation op returning a new answer
Reads(op) == answer' # answer /\ answer'.op = op

\* ------------------------------------------------------------ the pages of a session
MaxSocial == 1      \* rows of messages, rows of connections, views of the project

ledger == <<users, kic_transactions, conn_users, conn_txns, writer, pc, args, balance, result,
            ncalls, now, answer>>

LoginEmails == {enhanced_users[1].email, enhanced_users[2].email}
Passwords == {"password123", "newpassword1"}    \* the seeded password, another of 8 characters or more
Names == {"Renamed"}
SocialPeer == Len(enhanced_users)   \* the user that messages and requests are sent to

\* if 'user' not in st.session_state: the login page, and nothing else, is shown
LoggedIn(p) == session[p].id # NULL

\* the session has no script run inside transfer_kic or the form's code after it
Idle(p) == pc[p] \in {"idle", "done"} /\ session[p].sending = 0

\* EnhancedAuthManager.login: the row with that email and password hash, or None
login(email, password) ==
    LET found == {i \in DOMAIN users : /\ users[i].email = email
                                       /\ users[i].password_hash = hash_password(password)}
    IN  IF found = {} THEN NoUser
        ELSE LET i == CHOOSE i \in found : TRUE
             IN  [id |-> i, name |-> users[i].name, kic_balance |-> users[i].kic_balance,
                  sending |-> 0]

\* the login form: st.session_state.user = user when login returns a row
Login(p, email, password) ==
    /\ ~LoggedIn(p)
    /\ Idle(p)
    /\ session' = [session EXCEPT ![p] = login(email, password)]
    /\ UNCHANGED <<ledger, social>>

\* the Logout button: every key of st.session_state is deleted
Logout(p) ==
    /\ LoggedIn(p)
    /\ Idle(p)
    /\ session' = [session EXCEPT ![p] = NoUser]
    /\ UNCHANGED <<ledger, social>>

\* a slip in the query: SELECT id, name FROM users, the sender is among the choices
all_users(p) == DOMAIN users

\* SELECT id, name FROM users WHERE id != ? : the choices of the selectbox
other_users(p) == DOMAIN users \ {session[p].id}

\* the send_kic form of the KIC hub submitted: number_input lets through an
\* amount from min_value 1 to max_value user['kic_balance'], the cached balance
SendKic(p, recipient, amount) ==
    /\ LoggedIn(p)
    /\ Idle(p)
    /\ recipient \in other_users(p)
    /\ 1 <= amount
    /\ amount <= session[p].kic_balance
    /\ StartCall(p, session[p].id, recipient, amount)
    /\ session' = [session EXCEPT ![p].sending = amount]
    /\ UNCHANGED social

\* a slip in the form: the cached balance is decremented whatever the outcome
FormResultUnconditional(p) ==
    /\ pc[p] = "done"
    /\ session[p].sending # 0
    /\ session' = [session EXCEPT
                       ![p].kic_balance = @ - session[p].sending,
                       ![p].sending = 0]
    /\ UNCHANGED <<ledger, social>>

\* the form's code after transfer_kic: on success the cached balance is
\* decremented; on False an error is shown; an exception ends the script run
FormResult(p) ==
    /\ pc[p] = "done"
    /\ session[p].sending # 0
    /\ session' = [session EXCEPT
                       ![p].kic_balance = IF result[p] = "True" THEN @ - session[p].sending ELSE @,
                       ![p].sending = 0]
    /\ UNCHANGED <<ledger, social>>

\* a slip in the UPDATE: INSERT OR REPLACE INTO users, the columns left out
\* (kic_balance among them) fall back to their defaults
edit_profile_replacing(p, name) ==
    /\ LoggedIn(p)
    /\ Idle(p)
    /\ writer = 0
    /\ users' = [users EXCEPT ![session[p].id].name = name,
                              ![session[p].id].kic_balance = StartingBalance]
    /\ conn_users' = users'
    /\ session' = [session EXCEPT ![p].name = name]
    /\ UNCHANGED <<kic_transactions, conn_txns, writer, pc, args, balance, result, ncalls, now,
                   answer, social>>

\* Save Profile Changes: UPDATE users SET name = ?, organization = ?, bio = ?,
\* location = ? WHERE id = ?; commit; the cached user is updated too
edit_profile(p, name) ==
    /\ LoggedIn(p)
    /\ Idle(p)
    /\ writer = 0
    /\ users' = [users EXCEPT ![session[p].id].name = name]
    /\ conn_users' = users'
    /\ session' = [session EXCEPT ![p].name = name]
    /\ UNCHANGED <<kic_transactions, conn_txns, writer, pc, args, balance, result, ncalls, now,
                   answer, social>>

\* Update Password: the current password is verified, then
\* UPDATE users SET password_hash = ? WHERE id = ?; commit
change_password(p, current_password, new_password) ==
    /\ LoggedIn(p)
    /\ Idle(p)
    /\ writer = 0
    /\ IF users[session[p].id].password_hash = hash_password(current_password)
       THEN users' = [users EXCEPT ![session[p].id].password_hash = hash_password(new_password)]
       ELSE users' = users
    /\ conn_users' = users'
    /\ UNCHANGED <<kic_transactions, conn_txns, writer, pc, args, balance, result, ncalls, now,
                   answer, app>>

\* SocialManager.send_message: INSERT INTO messages; commit
send_message(p, receiver_id) ==
    /\ LoggedIn(p)
    /\ Idle(p)
    /\ writer = 0
    /\ Len(social.messages) < MaxSocial
    /\ social' = [social EXCEPT !.messages =
                     Append(@, [sender_id |-> session[p].id, receiver_id |-> receiver_id])]
    /\ UNCHANGED <<ledger, session>>

\* SocialManager.send_connection_request: INSERT INTO connections; commit
send_connection_request(p, addressee_id) ==
    /\ LoggedIn(p)
    /\ Idle(p)
    /\ writer = 0
    /\ Len(social.connections) < MaxSocial
    /\ social' = [social EXCEPT !.connections =
                     Append(@, [requester_id |-> session[p].id, addressee_id |-> addressee_id])]
    /\ UNCHANGED <<ledger, session>>

\* View Details: UPDATE projects SET views = views + 1 WHERE id = ?; commit
view_project(p) ==
    /\ LoggedIn(p)
    /\ Idle(p)
    /\ writer = 0
    /\ social.views < MaxSocial
    /\ social' = [social EXCEPT !.views = @ + 1]
    /\ UNCHANGED <<ledger, session>>

\* the amounts tried in the form: the least, and the whole cached balance
FormAmounts(p) == {1, session[p].kic_balance}

\* sessions log in and out and send KIC through the form, while users
\* register.  A write transaction is a few statements long, so a session
\* waiting for the write lock gets it before the busy timeout: Locked is not
\* among the steps; an exception in the form is covered by Abort.
NextWallet ==
    \/ \E p \in Procs, e \in LoginEmails, pw \in Passwords : Login(p, e, pw)
    \/ \E p \in Procs : Logout(p)
    \/ \E p \in Procs, r \in DOMAIN users : \E a \in FormAmounts(p) :
          ncalls < MaxQueryCalls /\ SendKic(p, r, a)
    \/ \E p \in Procs : Select(p)
    \/ \E p \in Procs : Debit(p)
    \/ \E p \in Procs : Credit(p)
    \/ \E p \in Procs : InsertSent(p)
    \/ \E p \in Procs : InsertReceived(p)
    \/ \E p \in Procs : Commit(p)
    \/ \E p \in Procs : Abort(p)
    \/ \E p \in Procs : FormResult(p)
    \/ \E e \in RegEmails : Register(e)

SpecWallet == Init /\ [][NextWallet]_vars

\* sessions log in and out and use the pages that do not transfer KIC
NextProfile ==
    \/ \E p \in Procs, e \in LoginEmails, pw \in Passwords : Login(p, e, pw)
    \/ \E p \in Procs : Logout(p)
    \/ \E e \in RegEmails : Register(e)
    \/ \E p \in Procs, n \in Names : edit_profile(p, n)
    \/ \E p \in Procs, c \in Passwords, n \in Passwords : change_password(p, c, n)
    \/ \E p \in Procs : send_message(p, SocialPeer)
    \/ \E p \in Procs : send_connection_request(p, SocialPeer)
    \/ \E p \in Procs : view_project(p)

SpecProfile == Init /\ [][NextProfile]_vars

\* ------------------------------------------------------------ ledger quantities
RECURSIVE SumTo(_, _, _)
\* the sum of the amounts of the first n rows of log whose user_id is uid
SumTo(log, uid, n) ==
    IF n = 0 THEN 0
    ELSE SumTo(log, uid, n - 1) + (IF log[n].user_id = uid THEN log[n].amount ELSE 0)

LogSum(log, uid) == SumTo(log, uid, Len(log))

RECURSIVE BalanceTo(_, _)
BalanceTo(tbl, n) == IF n = 0 THEN 0 ELSE BalanceTo(tbl, n - 1) + tbl[n].kic_balance

TotalBalance(tbl) == BalanceTo(tbl, Len(tbl))

Outcomes(r) == {p \in Procs : pc[p] = "done" /\ result[p] = r}

\* the session's call is running, and this step is a statement of it
Running(p) == pc[p] \in {"select", "debit", "credit", "sent", "received", "commit"}
StepOf(p) == Running(p) /\ pc'[p] # pc[p]
Untouched == users' = users /\ kic_transactions' = kic_transactions

\* ------------------------------------------------------------ claims

\* C1: in every committed state each account's kic_balance equals the sum of
\* the amounts of the kic_transactions rows of that account.
C1_BalanceEqualsLogSum ==
    \A i \in DOMAIN users : users[i].kic_balance = LogSum(kic_transactions, i)

\* C2: no account's kic_balance is negative in any committed state, whatever
\* the arguments and the interleaving of the transfer_kic calls.
C2_NoOverdraft ==
    \A i \in DOMAIN users : users[i].kic_balance >= 0

\* C3: a step that is not a registration (the users table keeps its rows)
\* leaves the sum of all kic_balance values unchanged.
C3_TransfersConserveTotal ==
    [][Len(users') = Len(users) => TotalBalance(users') = TotalBalance(users)]_vars

\* C4: when the NProc concurrent transfer_kic(A, B, 1) calls of a burst have
\* all finished and A started with b < NProc, exactly b returned True, exactly
\* NProc - b returned False, and A holds exactly 0.
C4_BurstSpendsExactlyTheBalance ==
    BurstDone =>
        /\ Cardinality(Outcomes("True")) = BurstStartBalance
        /\ Cardinality(Outcomes("False")) = NProc - BurstStartBalance
        /\ users[BurstFrom].kic_balance = 0

\* C5: a call that finds the sender's balance below the amount returns False,
\* and that step changes neither table, committed or in a transaction.
C5_InsufficientFundsNoEffect ==
    [][\A p \in Procs :
          ( /\ pc[p] = "select"
            /\ pc'[p] # "select"
            /\ Exists(users, args[p].from_user_id)
            /\ users[args[p].from_user_id].kic_balance < args[p].amount )
          => ( /\ pc'[p] = "done"
               /\ result'[p] = "False"
               /\ Untouched
               /\ UNCHANGED <<conn_users, conn_txns, writer>> )]_vars

\* a call returned False, and the tables are as they were seeded
C5_Witness ==
    /\ \E p \in Procs : pc[p] = "done" /\ result[p] = "False"
    /\ kic_transactions = seed_kic_transactions
    /\ \A i \in DOMAIN enhanced_users : users[i] = enhanced_users[i]

\* C6: a call between two distinct existing accounts with 0 < amount <= the
\* sender's balance is not turned down by the balance test, and when it
\* finishes (other than by a lock timeout) it has returned True, the sender's
\* balance is down by amount, the receiver's up by amount, no other row of
\* users changed, and exactly two rows were appended: ('sent', -amount) for
\* the sender and ('received', +amount) for the receiver.
C6_Applies(p) ==
    /\ args[p].from_user_id # args[p].to_user_id
    /\ Exists(users, args[p].from_user_id)
    /\ Exists(users, args[p].to_user_id)
    /\ 0 < args[p].amount

C6_TransferMovesAmount ==
    [][\A p \in Procs :
          /\ ( /\ pc[p] = "select"
               /\ pc'[p] # "select"
               /\ C6_Applies(p)
               /\ args[p].amount <= users[args[p].from_user_id].kic_balance )
             => pc'[p] = "debit"
          /\ ( /\ Running(p)
               /\ pc[p] # "select"
               /\ pc'[p] = "done"
               /\ result'[p] # "OperationalError"
               /\ C6_Applies(p)
               /\ args[p].amount <= balance[p] )
             => LET f == args[p].from_user_id
                    t == args[p].to_user_id
                    a == args[p].amount
                    n == Len(kic_transactions)
                IN  /\ result'[p] = "True"
                    /\ users' = [users EXCEPT ![f].kic_balance = @ - a,
                                              ![t].kic_balance = @ + a]
                    /\ Len(kic_transactions') = n + 2
                    /\ SubSeq(kic_transactions', 1, n) = kic_transactions
                    /\ kic_transactions'[n + 1].user_id = f
                    /\ kic_transactions'[n + 1].transaction_type = "sent"
                    /\ kic_transactions'[n + 1].amount = -a
                    /\ kic_transactions'[n + 2].user_id = t
                    /\ kic_transactions'[n + 2].transaction_type = "received"
                    /\ kic_transactions'[n + 2].amount = a]_vars

\* the first transfer on the seeded tables has committed: 1500 from user 1 to user 2
C6_Witness ==
    /\ \E p \in Procs : pc[p] = "done" /\ result[p] = "True"
    /\ Len(kic_transactions) = Len(seed_kic_transactions) + 2
    /\ kic_transactions[DrainRow].user_id = 1
    /\ kic_transactions[DrainRow].amount = -1500
    /\ kic_transactions[DrainRow + 1].user_id = 2
    /\ kic_transactions[DrainRow + 1].amount = 1500
    /\ users[1].kic_balance = enhanced_users[1].kic_balance - 1500
    /\ users[2].kic_balance = enhanced_users[2].kic_balance + 1500

\* C7: every 'sent' row has exactly one 'received' row with the opposite
\* amount such that the two rows' related_id name each other's id.
C7_SentHasLinkedReceived ==
    \A i \in DOMAIN kic_transactions :
        kic_transactions[i].transaction_type = "sent" =>
            Cardinality({j \in DOMAIN kic_transactions :
                            /\ kic_transactions[j].transaction_type = "received"
                            /\ kic_transactions[j].amount = -kic_transactions[i].amount
                            /\ kic_transactions[j].related_id = i
                            /\ kic_transactions[i].related_id = j}) = 1

\* C8: no statement of a call with amount <= 0 changes a committed table, and
\* such a call does not return True.
C8_NonPositiveAmountRejected ==
    [][\A p \in Procs :
          (StepOf(p) /\ args[p].amount <= 0)
          => (Untouched /\ result'[p] # "True")]_vars

\* C9: no statement of a call with from_user_id = to_user_id changes a
\* committed table, and such a call does not return True.
C9_SelfTransferRejected ==
    [][\A p \in Procs :
          (StepOf(p) /\ args[p].from_user_id = args[p].to_user_id)
          => (Untouched /\ result'[p] # "True")]_vars

\* C10: no statement of a call whose sender or receiver is not a row of users
\* changes a committed table, and such a call does not return True.
C10_UnknownAccountRejected ==
    [][\A p \in Procs :
          ( /\ StepOf(p)
            /\ \/ ~Exists(users, args[p].from_user_id)
               \/ ~Exists(users, args[p].to_user_id) )
          => (Untouched /\ result'[p] # "True")]_vars

\* C11: the committed tables, which are all another connection reads, change
\* only by a registration or by the commit of a transfer, and that commit
\* applies the sender's debit, the receiver's credit, the 'sent' row and the
\* 'received' row in one step; a call that ends without returning True has
\* changed nothing.
C11_Registration ==
    /\ kic_transactions' = kic_transactions
    /\ Len(users') = Len(users) + 1
    /\ SubSeq(users', 1, Len(users)) = users

C11_AppliedWhole(p) ==
    LET f == args[p].from_user_id
        t == args[p].to_user_id
        a == args[p].amount
        n == Len(kic_transactions)
    IN  /\ pc[p] = "commit"
        /\ pc'[p] = "done"
        /\ result'[p] = "True"
        /\ users' = [i \in DOMAIN users |->
                        [users[i] EXCEPT !.kic_balance =
                            @ - (IF i = f THEN a ELSE 0) + (IF i = t THEN a ELSE 0)]]
        /\ Len(kic_transactions') = n + 2
        /\ SubSeq(kic_transactions', 1, n) = kic_transactions
        /\ kic_transactions'[n + 1].user_id = f
        /\ kic_transactions'[n + 1].transaction_type = "sent"
        /\ kic_transactions'[n + 1].amount = -a
        /\ kic_transactions'[n + 2].user_id = t
        /\ kic_transactions'[n + 2].transaction_type = "received"
        /\ kic_transactions'[n + 2].amount = a

C11_TransferIsAtomic ==
    [][/\ \/ Untouched
          \/ C11_Registration
          \/ \E p \in Procs : C11_AppliedWhole(p)
       /\ \A p \in Procs :
             (StepOf(p) /\ pc'[p] = "done" /\ result'[p] # "True") => Untouched]_vars

\* a transfer has run all four statements and not yet committed, and another
\* session has meanwhile read the sender's committed balance, which differs
\* from the pending one
C11_Witness ==
    \E p \in Procs, q \in Procs :
        /\ p # q
        /\ pc[p] = "commit"
        /\ pc[q] = "debit"
        /\ args[q].from_user_id = args[p].from_user_id
        /\ balance[q] = users[args[q].from_user_id].kic_balance
        /\ balance[q] # conn_users[args[q].from_user_id].kic_balance
        /\ Len(conn_txns) = Len(kic_transactions) + 2

\* C12: whatever the interleaving of the transfer_kic calls, the balance of
\* an account that exists from the start equals its initial balance plus the
\* amounts of the committed transfers into it minus those out of it, which
\* are the amounts of the rows its transfers appended to the log.
C12_NoLostUpdate ==
    \A i \in DOMAIN enhanced_users :
        users[i].kic_balance =
            enhanced_users[i].kic_balance
                + LogSum(kic_transactions, i) - LogSum(seed_kic_transactions, i)

\* two overlapping calls out of user 1 both returned True: both read 1500
\* before either committed, and both debits were kept
C12_Witness ==
    /\ \A p \in Procs : pc[p] = "done" => result[p] = "True"
    /\ Cardinality(Outcomes("True")) = 2
    /\ Len(kic_transactions) = Len(seed_kic_transactions) + 4
    /\ kic_transactions[DrainRow].user_id = 1
    /\ kic_transactions[DrainRow].amount = -1500
    /\ kic_transactions[DrainRow + 2].user_id = 1
    /\ kic_transactions[DrainRow + 2].amount = -1500
    /\ users[1].kic_balance = enhanced_users[1].kic_balance - 3000

\* C13: the log is append-only: every step leaves the rows already in
\* kic_transactions as they are and in place; it can only add rows after them.
C13_LogAppendOnly ==
    [][/\ Len(kic_transactions') >= Len(kic_transactions)
       /\ SubSeq(kic_transactions', 1, Len(kic_transactions)) = kic_transactions]_vars

\* two transfers have committed after the seeding and the seeded rows are
\* still the first rows of the log
C13_Witness ==
    /\ Len(kic_transactions) = Len(seed_kic_transactions) + 4
    /\ SubSeq(kic_transactions, 1, Len(seed_kic_transactions)) = seed_kic_transactions
    /\ kic_transactions[DrainRow + 2].transaction_type = "sent"
    /\ kic_transactions[DrainRow + 3].transaction_type = "received"

\* C14: in the committed log and in the log as an open transaction sees it,
\* every row's id is strictly greater than the id of every row written
\* before it (so the ids are unique), whichever sessions wrote the rows.
IdsIncrease(tbl) ==
    \A i \in DOMAIN tbl, j \in DOMAIN tbl : i < j => tbl[i].id < tbl[j].id

C14_EntryIdsIncrease == IdsIncrease(kic_transactions) /\ IdsIncrease(conn_txns)

\* one transfer has committed and another session's transfer, which read the
\* balance before that commit, has inserted both its rows after it
C14_Witness ==
    /\ writer # 0
    /\ pc[writer] = "commit"
    /\ balance[writer] # users[args[writer].from_user_id].kic_balance
    /\ Len(kic_transactions) = Len(seed_kic_transactions) + 2
    /\ Len(conn_txns) = Len(seed_kic_transactions) + 4
    /\ conn_txns[Len(conn_txns)].id = Len(seed_kic_transactions) + 4

\* C20: the transaction_type of every row of the log is 'sent', 'received'
\* or 'adjustment'.
C20_KindIsSentReceivedOrAdjustment ==
    \A i \in DOMAIN kic_transactions :
        kic_transactions[i].transaction_type \in {"sent", "received", "adjustment"}

C17_Rows(uid, limit, rows, log) ==
    LET mine == {i \in DOMAIN log : log[i].user_id = uid}
        got  == {i \in mine : \E k \in DOMAIN rows : rows[k] = log[i]}
    IN  /\ \A k \in DOMAIN rows : rows[k].user_id = uid
        /\ \A k \in DOMAIN rows : \E i \in mine : rows[k] = log[i]
        /\ Len(rows) <= limit
        /\ Len(rows) = (IF Cardinality(mine) < limit THEN Cardinality(mine) ELSE limit)
        /\ Cardinality(got) = Len(rows)
        /\ \A k \in DOMAIN rows, l \in DOMAIN rows :
              k < l => \/ rows[k].created_at > rows[l].created_at
                       \/ rows[k].created_at = rows[l].created_at /\ rows[k].id < rows[l].id
        /\ \A i \in mine \ got, k \in DOMAIN rows : log[i].created_at <= rows[k].created_at

C17_HistoryNewestFirst ==
    [][Reads("get_kic_transactions") =>
          C17_Rows(answer'.user_id, answer'.limit, answer'.rows, kic_transactions)]_vars

\* a history was cut by the limit and holds a row written after the seeding,
\* in a later second than the seeded rows of that user that were left out
C17_Witness ==
    /\ answer.op = "get_kic_transactions"
    /\ answer.limit = 1
    /\ Len(answer.rows) = 1
    /\ answer.rows[1].created_at > SeedTime
    /\ answer.rows[1].id > Len(seed_kic_transactions)
    /\ \E i \in DOMAIN seed_kic_transactions : seed_kic_transactions[i].user_id = answer.user_id

\* C18: a step that is a read operation (get_kic_balance,
\* get_kic_transactions, the totals of the KIC hub) changes no balance and no
\* row of the log, committed or pending, and does not take the write lock.
C18_ReadsChangeNothing ==
    [][(Reads("get_kic_balance") \/ Reads("get_kic_transactions") \/ Reads("show_kic_hub_page")) =>
          /\ Untouched
          /\ UNCHANGED <<conn_users, conn_txns, writer>>]_vars

\* the totals of the KIC hub were read after a transfer committed, and the
\* balances and the log are as that transfer left them
C18_Witness ==
    /\ answer.op = "show_kic_hub_page"
    /\ answer.user_id = 1
    /\ \E p \in Procs : pc[p] = "done" /\ result[p] = "True"
    /\ Len(kic_transactions) = Len(seed_kic_transactions) + 2
    /\ users[1].kic_balance = enhanced_users[1].kic_balance + kic_transactions[DrainRow].amount

\* C19: total earned is the sum of the strictly positive amounts of the
\* account's rows and total spent is the absolute value of the sum of its
\* strictly negative amounts; each is 0 when the account has no such row.
RECURSIVE C19_SumWhere(_, _, _, _)
\* the sum of sign * amount over the first n rows of uid whose amount has that sign
C19_SumWhere(log, uid, sign, n) ==
    IF n = 0 THEN 0
    ELSE C19_SumWhere(log, uid, sign, n - 1)
            + (IF log[n].user_id = uid /\ sign * log[n].amount > 0
               THEN sign * log[n].amount ELSE 0)

C19_TotalsAreSignedSums ==
    [][Reads("show_kic_hub_page") =>
          LET uid == answer'.user_id
              log == kic_transactions
              n   == Len(kic_transactions)
          IN  /\ answer'.value = C19_SumWhere(log, uid, 1, n)
              /\ answer'.total_spent = C19_SumWhere(log, uid, -1, n)
              /\ (\A i \in DOMAIN log : log[i].user_id = uid => log[i].amount <= 0)
                    => answer'.value = 0
              /\ (\A i \in DOMAIN log : log[i].user_id = uid => log[i].amount >= 0)
                    => answer'.total_spent = 0]_vars

\* the totals of user 2 were read: 1200 earned and 800 spent by the seeded
\* rows, and 1500 more earned by a transfer received
C19_Witness ==
    /\ answer.op = "show_kic_hub_page"
    /\ answer.user_id = 2
    /\ answer.value = 2700
    /\ answer.total_spent = 800

\* C21: every 'sent' row of the log has a strictly negative amount and every
\* 'received' row a strictly positive one.
C21_SignMatchesDirection ==
    \A i \in DOMAIN kic_transactions :
        /\ kic_transactions[i].transaction_type = "sent" => kic_transactions[i].amount < 0
        /\ kic_transactions[i].transaction_type = "received" => kic_transactions[i].amount > 0

\* C26: a statement of a transfer_kic call whose sender and receiver both
\* have a users row leaves, for every account, kic_balance minus the sum of
\* the account's log amounts as it was, whatever the call's outcome and
\* whatever the other sessions are doing.
Offset(tbl, log, i) == tbl[i].kic_balance - LogSum(log, i)

C26_TransfersKeepOffset ==
    [][\A p \in Procs :
          ( /\ StepOf(p)
            /\ Exists(users, args[p].from_user_id)
            /\ Exists(users, args[p].to_user_id) )
          => \A i \in DOMAIN users :
                Offset(users', kic_transactions', i) = Offset(users, kic_transactions, i)]_vars

\* two transfers between existing accounts have committed, one of them out of
\* user 1, and user 1's offset is the seeded one
C26_Witness ==
    /\ Len(kic_transactions) = Len(seed_kic_transactions) + 4
    /\ \A i \in DOMAIN kic_transactions : Exists(users, kic_transactions[i].user_id)
    /\ \E i \in DOMAIN kic_transactions :
          /\ kic_transactions[i].transaction_type = "sent"
          /\ kic_transactions[i].user_id = 1
          /\ kic_transactions[i].amount # 0
    /\ users[1].kic_balance # enhanced_users[1].kic_balance
    /\ Offset(users, kic_transactions, 1) = Offset(enhanced_users, seed_kic_transactions, 1)

\* C27: the committed log has as many 'sent' rows as 'received' rows, and the
\* amounts of all its 'sent' and 'received' rows sum to zero.
RowsOfType(log, type) == {i \in DOMAIN log : log[i].transaction_type = type}

RECURSIVE C27_TransferSum(_, _)
C27_TransferSum(log, n) ==
    IF n = 0 THEN 0
    ELSE C27_TransferSum(log, n - 1)
            + (IF log[n].transaction_type \in {"sent", "received"} THEN log[n].amount ELSE 0)

C27_SentAndReceivedBalance ==
    /\ Cardinality(RowsOfType(kic_transactions, "sent"))
          = Cardinality(RowsOfType(kic_transactions, "received"))
    /\ C27_TransferSum(kic_transactions, Len(kic_transactions)) = 0

\* two transfers have committed, one of them to an id that has no users row
C27_Witness ==
    /\ Cardinality(RowsOfType(kic_transactions, "sent")) = 2
    /\ Cardinality(RowsOfType(kic_transactions, "received")) = 2
    /\ \E i \in RowsOfType(kic_transactions, "received") :
          /\ ~Exists(users, kic_transactions[i].user_id)
          /\ kic_transactions[i].amount # 0

\* C25: under fair scheduling every transfer_kic call that has started
\* finishes: it returns True or False or raises, whatever the other sessions
\* do, also when two sessions transfer in opposite directions between the
\* same two accounts.
C25_EveryCallFinishes ==
    \A p \in Procs : Running(p) ~> (pc[p] = "done" /\ result[p] # "none")

\* two calls in opposite directions between users 1 and 2 are running, one
\* inside its write transaction and the other waiting to write
C25_Witness ==
    \E p \in Procs, q \in Procs :
        /\ pc[p] = "commit"
        /\ pc[q] = "debit"
        /\ args[p].from_user_id = args[q].to_user_id
        /\ args[p].to_user_id = args[q].from_user_id
        /\ args[p].from_user_id # args[p].to_user_id
        /\ writer = p

\* C24: a register that returns True has added one users row, with the given
\* email and a kic_balance of exactly 1000, and has changed no other row of
\* users and no row of the log.
C24_RegisterStartsAt1000 ==
    [][(Reads("register") /\ answer'.returned = "True") =>
          /\ Len(users') = Len(users) + 1
          /\ SubSeq(users', 1, Len(users)) = users
          /\ users'[Len(users')].kic_balance = 1000
          /\ users'[Len(users')].email = answer'.email
          /\ kic_transactions' = kic_transactions]_vars

\* a register has returned True and the new account holds 1000
C24_Witness ==
    /\ answer.op = "register"
    /\ answer.returned = "True"
    /\ Len(users) = Len(enhanced_users) + 1
    /\ users[NewUserId].email = answer.email
    /\ users[NewUserId].kic_balance = 1000

\* C30: a register with an email that a users row already has returns False
\* and changes neither table; after every register no two rows of users have
\* the same email.
C30_DuplicateEmailRejected ==
    [][Reads("register") =>
          /\ (\E i \in DOMAIN users : users[i].email = answer'.email)
                => ( /\ answer'.returned = "False"
                     /\ Untouched
                     /\ UNCHANGED <<conn_users, conn_txns>> )
          /\ \A i \in DOMAIN users', j \in DOMAIN users' :
                users'[i].email = users'[j].email => i = j]_vars

\* a register with a seeded user's email has returned False, and the users
\* table has the rows it was seeded with
C30_Witness ==
    /\ answer.op = "register"
    /\ answer.returned = "False"
    /\ answer.email = enhanced_users[1].email
    /\ users = enhanced_users

\* C22: no step of a session's other pages (login, logout, register of
\* another account, profile edit, password change, message, connection
\* request, view count) changes the kic_balance of an existing account.
C22_OnlyTransfersChangeBalances ==
    [][\A i \in DOMAIN users : users'[i].kic_balance = users[i].kic_balance]_vars

\* a profile was edited, a password changed, a message and a connection
\* request sent, a project viewed and a user registered, and the seeded
\* balances are as they were
C22_Witness ==
    /\ \E i \in DOMAIN enhanced_users : users[i].name \in Names
    /\ \E i \in DOMAIN enhanced_users :
          users[i].password_hash # enhanced_users[i].password_hash
    /\ Len(social.messages) > 0
    /\ Len(social.connections) > 0
    /\ social.views > 0
    /\ Len(users) > Len(enhanced_users)
    /\ \A i \in DOMAIN enhanced_users : users[i].kic_balance = enhanced_users[i].kic_balance

\* C28: a step that submits a transfer is taken by a session with a
\* logged-in user; the sender is that user, the recipient is another id that
\* has a users row, and the amount is at least 1 and at most the balance
\* cached in the session.
C28_FormTransfersAreWellFormed ==
    [][\A p \in Procs :
          (pc[p] \in {"idle", "done"} /\ pc'[p] = "select")
          => /\ session[p].id # NULL
             /\ args'[p].from_user_id = session[p].id
             /\ args'[p].to_user_id # session[p].id
             /\ Exists(users, args'[p].to_user_id)
             /\ 1 <= args'[p].amount
             /\ args'[p].amount <= session[p].kic_balance]_vars

\* a logged-in session has submitted its whole cached balance to a user who
\* registered after the seeding
C28_Witness ==
    \E p \in Procs :
        /\ pc[p] = "select"
        /\ session[p].id = args[p].from_user_id
        /\ args[p].to_user_id = NewUserId
        /\ Exists(users, NewUserId)
        /\ args[p].amount = session[p].kic_balance
        /\ session[p].sending = args[p].amount

\* C29: the balance cached in a session is the stored kic_balance of its
\* user at login, and stays equal to it through every step that is not the
\* commit of another session's transfer to or from that user; a transfer that
\* did not succeed leaves the cached balance as it was.  Between the return
\* of transfer_kic and the form's next statement the cached balance counts
\* as already decremented.
Cached(p) ==
    session[p].kic_balance
        - (IF pc[p] = "done" /\ result[p] = "True" THEN session[p].sending ELSE 0)

InSync(p) == session[p].id # NULL /\ Cached(p) = users[session[p].id].kic_balance

C29_CachedBalanceTracksStored ==
    [][\A p \in Procs :
          /\ (session[p].id = NULL /\ session'[p].id # NULL) => InSync(p)'
          /\ (InSync(p) /\ session'[p].id = session[p].id)
                => \/ InSync(p)'
                   \/ \E q \in Procs \ {p} :
                         /\ pc[q] = "commit"
                         /\ pc'[q] = "done"
                         /\ result'[q] = "True"
                         /\ session[p].id \in {args[q].from_user_id, args[q].to_user_id}
          /\ (session[p].sending # 0 /\ session'[p].sending = 0 /\ result[p] # "True")
                => session'[p].kic_balance = session[p].kic_balance]_vars

\* a session has sent 1 KIC through the form, and its cached balance and the
\* stored balance are both one less than the seeded balance
C29_Witness ==
    \E p \in Procs :
        /\ session[p].id \in DOMAIN enhanced_users
        /\ session[p].sending = 0
        /\ pc[p] = "done"
        /\ result[p] = "True"
        /\ session[p].kic_balance = enhanced_users[session[p].id].kic_balance - 1
        /\ users[session[p].id].kic_balance = session[p].kic_balance

====
